---- MODULE Spec2Model ----
(***************************************************************************)
(* Model of the curve-fitting core of thInk (src/math/fit_spline.rs,       *)
(* src/math/fit_bez.rs) and of the event handler that drives it            *)
(* (src/main.rs, src/systems/update_spline.rs).                            *)
(*                                                                         *)
(* Numbers.  An f64 is a record [nan, v]: either NaN or a finite value v.  *)
(* All inputs are integers and every finite value the model computes is an *)
(* integer, so finite arithmetic is exact.  NaN propagates as in IEEE 754  *)
(* (NaN op x = NaN, 0.0 / 0.0 = NaN, 0.0 * NaN = NaN, NaN.powi(0) = 1).    *)
(*                                                                         *)
(* Linear algebra.  determinant, try_inverse and pseudo_inverse belong to  *)
(* nalgebra, not to this repository.  Matrices are tracked entry by entry  *)
(* as "is this entry NaN"; the outcome of each library call on a finite    *)
(* matrix (|det| < EPSILON or not, inverse found or not, pseudo-inverse    *)
(* found or not) is an input, the record lib.  The finite numbers the      *)
(* least-squares solve produces are not reproduced: LsqValue stands for    *)
(* them (see there).                                                       *)
(***************************************************************************)
EXTENDS Integers, Sequences, FiniteSets, TLC

VARIABLES
    points,        \* create_bezier_spline / fit_bezier_curve: the argument `points`
    size,          \* create_bezier_spline: the argument `size`
    i,             \* create_bezier_spline: loop index of the scan (0-based)
    last_vec_i,    \* create_bezier_spline: index of the anchor (0-based)
    last_vec2,     \* create_bezier_spline: the anchor point
    spline_parts,  \* create_bezier_spline: the runs pushed so far
    run_ranges,    \* history: <<first, last>> 0-based index range of each pushed run
    fit_done,      \* indices of the runs whose fitting task has written its slot
    spline,        \* the Vec<BezierCurve> being built / smoothed
    adjustments,   \* smooth_spline: result of the first pass
    apply_done,    \* smooth_spline: indices whose apply task has run
    orig,          \* history: the spline as it was when smooth_spline was entered
    smooth_calls,  \* history: number of calls of smooth_spline
    lib,           \* outcomes of the nalgebra calls made by solve_for_b
    fit_out,       \* fit_bezier_curve: the returned curve
    fit_how,       \* solve_for_b: which branch produced the returned matrix
    fit_calls,     \* history: the library calls solve_for_b made, with outcomes
    pc,            \* position in the function being modelled
    is_drawing,    \* ThinkApp.is_drawing
    start_draw_time, \* ThinkApp.start_draw_time: -1 for None, else a tick
    now,           \* the clock read by Instant::now()
    world,         \* ThinkApp.world: the entities, in spawn order
    panicked,      \* the handler panicked (a single_mut query did not match one entity)
    last_event,    \* history: the last event handled
    last_call      \* history: number of points given to the last create_bezier_spline call, -1 if none

vars == <<points, size, i, last_vec_i, last_vec2, spline_parts, run_ranges,
          fit_done, spline, adjustments, apply_done, orig, smooth_calls, lib,
          fit_out, fit_how, fit_calls, pc, is_drawing, start_draw_time, now, world,
          panicked, last_event, last_call>>

----------------------------------------------------------------------------
(* Bounds *)

\* longest point sequence given to create_bezier_spline / fit_bezier_curve
MaxLen == 4

\* longest curve list given to smooth_spline on its own
MaxCurves == 3

\* most entities spawned (mouse presses) in one run of the application
MaxStrokes == 2

\* most samples appended to one stroke
MaxPts == 2

\* last tick of the clock; later reads of the clock return the same tick
MaxTime == 2

----------------------------------------------------------------------------
(* f64 and Vector2<f64> *)

NaN == [nan |-> TRUE, v |-> 0]
F(n) == [nan |-> FALSE, v |-> n]

FAdd(a, b) == IF a.nan \/ b.nan THEN NaN ELSE F(a.v + b.v)
FSub(a, b) == IF a.nan \/ b.nan THEN NaN ELSE F(a.v - b.v)

Vec2(x, y) == [x |-> x, y |-> y]
VAdd(p, q) == Vec2(FAdd(p.x, q.x), FAdd(p.y, q.y))
VSub(p, q) == Vec2(FSub(p.x, q.x), FSub(p.y, q.y))
VHasNaN(p) == p.x.nan \/ p.y.nan

\* sample positions: a 90 x 120 rectangle, so that every distance between two
\* samples (0, 90, 120, 150) is an integer and every chord divides by three
XS == {0, 90}
YS == {0, 120}
Samples == {Vec2(F(x), F(y)) : x \in XS, y \in YS}
\* 130 lies between the side 120 and the diagonal 150: with it a point can be
\* farther than size from the anchor and nearer than size to its predecessor
Sizes == {1, 100, 130, 200}

SeqsUpTo(S, lo, hi) == UNION {[1..n -> S] : n \in lo..hi}

MaxOf(S) == CHOOSE m \in S : \A s \in S : s <= m

\* the r in lo..hi with r * r = n, by bisection
RECURSIVE SqrtIn(_, _, _)
SqrtIn(n, lo, hi) ==
    IF lo >= hi THEN lo
    ELSE LET mid == (lo + hi) \div 2 IN
         IF mid * mid >= n THEN SqrtIn(n, lo, mid) ELSE SqrtIn(n, mid + 1, hi)

\* f64::sqrt on the perfect squares the sample grid produces
Sqrt(n) == SqrtIn(n, 0, MaxOf(XS) + MaxOf(YS))

\* Vector2::metric_distance and the distance of normalized_path_lengths
metric_distance(p, q) ==
    Sqrt((p.x.v - q.x.v) * (p.x.v - q.x.v) + (p.y.v - q.y.v) * (p.y.v - q.y.v))

----------------------------------------------------------------------------
(* Segmentation scan of create_bezier_spline.  A scan state is the record  *)
(* [last_vec_i, last_vec2, spline_parts, run_ranges].  Indices are the     *)
(* source's 0-based indices; points[k] of the source is pts[k + 1] here.   *)

ScanStart(pts) ==
    [last_vec_i |-> 0, last_vec2 |-> pts[1], spline_parts |-> <<>>,
     run_ranges |-> <<>>]

\* mutant of ScanIteration: the closed run stops before the current point
\* (points[last_vec_i..i] for points[last_vec_i..(i+1)])
ScanIterationExclusive(pts, sz, st, idx) ==
    LET vec2 == pts[idx + 1] IN
    IF metric_distance(st.last_vec2, vec2) > sz
    THEN [last_vec_i |-> idx,
          last_vec2 |-> vec2,
          spline_parts |-> Append(st.spline_parts,
                                  SubSeq(pts, st.last_vec_i + 1, idx)),
          run_ranges |-> Append(st.run_ranges, <<st.last_vec_i, idx>>)]
    ELSE st

\* mutant of ScanIteration: the distance is taken from the previous point
\* (points[i - 1]) instead of the anchor last_vec2
ScanIterationPrevious(pts, sz, st, idx) ==
    LET vec2 == pts[idx + 1] IN
    IF metric_distance(pts[idx], vec2) > sz
    THEN [last_vec_i |-> idx,
          last_vec2 |-> vec2,
          spline_parts |-> Append(st.spline_parts,
                                  SubSeq(pts, st.last_vec_i + 1, idx + 1)),
          run_ranges |-> Append(st.run_ranges, <<st.last_vec_i, idx>>)]
    ELSE st

\* the loop body at index idx: close a run when the anchor is farther than sz
ScanIteration(pts, sz, st, idx) ==
    LET vec2 == pts[idx + 1] IN
    IF metric_distance(st.last_vec2, vec2) > sz
    THEN [last_vec_i |-> idx,
          last_vec2 |-> vec2,
          spline_parts |-> Append(st.spline_parts,
                                  SubSeq(pts, st.last_vec_i + 1, idx + 1)),
          run_ranges |-> Append(st.run_ranges, <<st.last_vec_i, idx>>)]
    ELSE st

\* after the loop: the whole input if nothing was pushed, else the tail
PushLast(pts, st) ==
    IF st.spline_parts = <<>>
    THEN [st EXCEPT !.spline_parts = <<pts>>,
                    !.run_ranges = << <<0, Len(pts) - 1>> >>]
    ELSE [st EXCEPT !.spline_parts =
                        Append(@, SubSeq(pts, st.last_vec_i + 1, Len(pts))),
                    !.run_ranges =
                        Append(@, <<st.last_vec_i, Len(pts) - 1>>)]

RECURSIVE ScanFrom(_, _, _, _)
ScanFrom(pts, sz, st, idx) ==
    IF idx >= Len(pts) THEN st
    ELSE ScanFrom(pts, sz, ScanIteration(pts, sz, st, idx), idx + 1)

\* the runs create_bezier_spline builds for pts
Segment(pts, sz) == PushLast(pts, ScanFrom(pts, sz, ScanStart(pts), 1)).spline_parts

----------------------------------------------------------------------------
(* fit_bez.rs *)

\* the tuple <<f(1), ..., f(n)>>
Tup(n, f(_)) ==
    LET RECURSIVE upto(_)
        upto(k) == IF k = 0 THEN <<>> ELSE Append(upto(k - 1), f(k))
    IN upto(n)

\* a normalized path length: NaN, or the fraction num / den
Frac(n, d) == [nan |-> FALSE, num |-> n, den |-> d]
FracNaN == [nan |-> TRUE, num |-> 0, den |-> 1]

\* path_length[0..k-1]: the cumulative distance from the first point
RECURSIVE path_length(_, _)
path_length(pts, k) ==
    IF k = 1 THEN <<0>>
    ELSE LET before == path_length(pts, k - 1)
         IN Append(before, before[k - 1] + metric_distance(pts[k], pts[k - 1]))

\* path_length[i] / path_length[last]; the numerator never exceeds the
\* denominator, so a zero denominator is always 0.0 / 0.0 = NaN
normalized_path_lengths(pts) ==
    LET pl == path_length(pts, Len(pts))
        total == pl[Len(pts)]
        zpl(k) == IF total = 0 THEN FracNaN ELSE Frac(pl[k], total)
    IN Tup(Len(pts), zpl)

\* f64::powi for the exponents 0..3
powi(t, n) ==
    IF n = 0 THEN Frac(1, 1)
    ELSE IF t.nan THEN FracNaN
    ELSE IF n = 1 THEN t
    ELSE IF n = 2 THEN Frac(t.num * t.num, t.den * t.den)
    ELSE Frac(t.num * t.num * t.num, t.den * t.den * t.den)

\* a matrix, entry by entry: a[r][c] says whether the entry is NaN
Mat(rows, cols, isnan(_, _)) ==
    LET row(r) == LET at(c) == isnan(r, c) IN Tup(cols, at)
    IN Tup(rows, row)

Rows(a) == Len(a)
Cols(a) == Len(a[1])

MatHasNaN(a) == \E r \in 1..Rows(a) : \E c \in 1..Cols(a) : a[r][c]

transpose(a) ==
    LET at(r, c) == a[c][r] IN Mat(Cols(a), Rows(a), at)

\* a product entry is a sum of products: NaN as soon as one factor is
MatMul(a, b) ==
    LET at(r, c) == \E k \in 1..Cols(a) : a[r][k] \/ b[k][c]
    IN Mat(Rows(a), Cols(b), at)

\* row i of U is [t^3, t^2, t, 1], with t = npls[i]
u(pts) ==
    LET npls == normalized_path_lengths(pts)
        at(r, c) == powi(npls[r], 4 - c).nan
    IN Mat(Len(pts), 4, at)

x(pts) == LET at(r, c) == pts[r].x.nan IN Mat(Len(pts), 1, at)
y(pts) == LET at(r, c) == pts[r].y.nan IN Mat(Len(pts), 1, at)

\* the fixed basis matrix M
m ==
    << <<-1, 3, -3, 1>>,
       <<3, -6, 3, 0>>,
       <<-3, 3, 0, 0>>,
       <<1, 0, 0, 0>> >>

\* determinant of a square integer matrix, by expansion along the first row
Minor(a, c) ==
    [r \in 1..(Len(a) - 1) |->
        [k \in 1..(Len(a) - 1) |-> a[r + 1][IF k < c THEN k ELSE k + 1]]]

RECURSIVE Det(_)
Det(a) ==
    IF Len(a) = 1 THEN a[1][1]
    ELSE LET term(c) == (IF c % 2 = 1 THEN 1 ELSE -1) * a[1][c] * Det(Minor(a, c))
             RECURSIVE sum(_)
             sum(c) == IF c = 0 THEN 0 ELSE sum(c - 1) + term(c)
         IN sum(Len(a))

\* the outcomes nalgebra can report to solve_for_b on a finite matrix
LibOutcomes == [det_small : BOOLEAN, inv_ok : BOOLEAN, pinv_ok : BOOLEAN]

\* the all-finite / all-NaN matrix of a's shape that an inversion returns
Inverted(a) ==
    LET has == MatHasNaN(a)
        at(r, c) == has
    IN Mat(Rows(a), Cols(a), at)

\* mutant of solve_for_b: a failed inversion returns the original matrix at
\* once, without trying the pseudo-inverse
solve_for_b_no_retry(a, l) ==
    LET det_nan == MatHasNaN(a)
        det_small == ~det_nan /\ l.det_small
        inverse_some == det_nan \/ l.inv_ok
    IN IF det_small
       THEN IF l.pinv_ok
            THEN [how |-> "pseudo_inverse", b |-> Inverted(a),
                  calls |-> <<"det:small", "pseudo_inverse:Ok">>]
            ELSE [how |-> "original", b |-> a,
                  calls |-> <<"det:small", "pseudo_inverse:Err">>]
       ELSE IF inverse_some
            THEN [how |-> "inverse", b |-> Inverted(a),
                  calls |-> <<"det:not_small", "try_inverse:Some">>]
            ELSE [how |-> "original", b |-> a,
                  calls |-> <<"det:not_small", "try_inverse:None">>]

\* [how, b, calls]: the matrix returned, the branch that produced it, and
\* the library calls made with their outcomes, in order.  A NaN determinant
\* is not < EPSILON, and try_inverse of a matrix with a NaN determinant
\* succeeds (its determinant is not zero) with NaN entries.
solve_for_b(a, l) ==
    LET det_nan == MatHasNaN(a)
        det_small == ~det_nan /\ l.det_small
        inverse_some == det_nan \/ l.inv_ok
        pseudo(calls) ==
            IF l.pinv_ok
            THEN [how |-> "pseudo_inverse", b |-> Inverted(a),
                  calls |-> Append(calls, "pseudo_inverse:Ok")]
            ELSE [how |-> "original", b |-> a,
                  calls |-> Append(calls, "pseudo_inverse:Err")]
    IN IF det_small THEN pseudo(<<"det:small">>)
       ELSE IF inverse_some
            THEN [how |-> "inverse", b |-> Inverted(a),
                  calls |-> <<"det:not_small", "try_inverse:Some">>]
            ELSE pseudo(<<"det:not_small", "try_inverse:None">>)

\* The finite value of control point k (1..4) of the fit of pts.  The
\* numbers of the least-squares solve are not reproduced; the model takes
\* the chord from the first to the last point of the run, cut in thirds.
LsqValue(pts, k) ==
    LET p == pts[1]
        q == pts[Len(pts)]
    IN Vec2(F(p.x.v + ((k - 1) * (q.x.v - p.x.v)) \div 3),
            F(p.y.v + ((k - 1) * (q.y.v - p.y.v)) \div 3))

\* m.try_inverse() is Some: the determinant of M is not zero
min_v_some == Det(m) # 0

\* [panic, how, p_arr]; panic is the expect on the inverse of M
best_fit(pts, l) ==
    LET fin(r, c) == FALSE
        min_v == Mat(4, 4, fin)
        u_ == u(pts)
        ut == transpose(u_)
        a == MatMul(ut, u_)
        sol == solve_for_b(a, l)
        c_ == MatMul(min_v, sol.b)
        d == MatMul(c_, ut)
        e == MatMul(d, x(pts))
        f == MatMul(d, y(pts))
    IN [panic |-> ~min_v_some,
        how |-> sol.how,
        calls |-> sol.calls,
        p_arr |-> [k \in 1..4 |->
            Vec2(IF e[k][1] THEN NaN ELSE LsqValue(pts, k).x,
                 IF f[k][1] THEN NaN ELSE LsqValue(pts, k).y)]]

BezierCurve(start, control1, control2, end) ==
    [start |-> start, control1 |-> control1, control2 |-> control2, end |-> end]

fit_bezier_curve(pts, l) ==
    LET p == best_fit(pts, l).p_arr IN BezierCurve(p[1], p[2], p[3], p[4])

----------------------------------------------------------------------------
(* smooth_spline and create_bezier_spline as functions *)

\* mutant of Adjustment: the start adjustment snaps onto the previous end
\* (prev.end - curr.start for curr.start - prev.end)
AdjustmentSnap(prev, curr) ==
    LET prev_tangent == VSub(prev.end, prev.control2)
    IN [start_adj |-> VSub(prev.end, curr.start),
        control1_adj |-> VSub(VAdd(curr.start, prev_tangent), curr.control1)]

\* mutant of Adjustment: the tangent of the previous curve points backwards
\* (prev.control2 - prev.end for prev.end - prev.control2)
AdjustmentBackTangent(prev, curr) ==
    LET prev_tangent == VSub(prev.control2, prev.end)
    IN [start_adj |-> VSub(curr.start, prev.end),
        control1_adj |-> VSub(VAdd(curr.start, prev_tangent), curr.control1)]

\* first pass, one window: (start adjustment, control1 adjustment)
Adjustment(prev, curr) ==
    LET prev_tangent == VSub(prev.end, prev.control2)
    IN [start_adj |-> VSub(curr.start, prev.end),
        control1_adj |-> VSub(VAdd(curr.start, prev_tangent), curr.control1)]

\* adjustments[k] is computed from the window (sp[k], sp[k + 1])
ComputeAdjustments(sp) ==
    [k \in 1..(Len(sp) - 1) |-> Adjustment(sp[k], sp[k + 1])]

\* second pass, one curve
ApplyAdjustment(curve, adj) ==
    [curve EXCEPT !.start = VAdd(@, adj.start_adj),
                  !.control1 = VAdd(@, adj.control1_adj)]

smooth_spline(sp) ==
    IF Len(sp) <= 1 THEN sp
    ELSE LET adjs == ComputeAdjustments(sp) IN
         [k \in 1..Len(sp) |->
            IF k = 1 THEN sp[k] ELSE ApplyAdjustment(sp[k], adjs[k - 1])]

create_bezier_spline(pts, sz, l) ==
    LET parts == Segment(pts, sz)
        fitted == [k \in 1..Len(parts) |-> fit_bezier_curve(parts[k], l)]
    IN IF Len(fitted) > 1 THEN smooth_spline(fitted) ELSE fitted

----------------------------------------------------------------------------
(* Values of the variables a specification does not use *)

NoPoint == Vec2(F(0), F(0))
NominalLib == [det_small |-> FALSE, inv_ok |-> TRUE, pinv_ok |-> TRUE]
NoCurve == BezierCurve(NoPoint, NoPoint, NoPoint, NoPoint)

SplineIdle ==
    /\ size = 0 /\ i = 0 /\ last_vec_i = 0 /\ last_vec2 = NoPoint
    /\ spline_parts = <<>> /\ run_ranges = <<>> /\ fit_done = {}

SmoothIdle ==
    /\ spline = <<>> /\ adjustments = <<>> /\ apply_done = {}
    /\ orig = <<>> /\ smooth_calls = 0

FitIdle == fit_out = NoCurve /\ fit_how = "none" /\ fit_calls = <<>>

AppIdle ==
    /\ is_drawing = FALSE /\ start_draw_time = -1 /\ now = 0
    /\ world = <<>> /\ panicked = FALSE /\ last_event = "none"
    /\ last_call = -1

splineVars == <<size, i, last_vec_i, last_vec2, spline_parts, run_ranges, fit_done>>
smoothVars == <<spline, adjustments, apply_done, orig, smooth_calls>>
fitVars == <<fit_out, fit_how, fit_calls>>
appVars == <<is_drawing, start_draw_time, now, world, panicked, last_event, last_call>>

----------------------------------------------------------------------------
(* SpecFit: one call of fit_bezier_curve on a run, for every outcome of    *)
(* the library calls.                                                      *)

InitFit ==
    /\ points \in SeqsUpTo(Samples, 1, MaxLen)
    /\ lib \in LibOutcomes
    /\ pc = "fit_call"
    /\ SplineIdle /\ SmoothIdle /\ FitIdle /\ AppIdle

FitBezierCurve ==
    /\ pc = "fit_call"
    /\ ~best_fit(points, lib).panic
    /\ fit_out' = fit_bezier_curve(points, lib)
    /\ fit_how' = best_fit(points, lib).how
    /\ fit_calls' = best_fit(points, lib).calls
    /\ pc' = "fit_returned"
    /\ UNCHANGED <<points, lib, splineVars, smoothVars, appVars>>

NextFit == FitBezierCurve

SpecFit == InitFit /\ [][NextFit]_vars

\* the run is n >= 2 copies of one point
Coincident(pts) == Len(pts) >= 2 /\ \A k \in 1..Len(pts) : pts[k] = pts[1]

CurveHasNaN(c) ==
    VHasNaN(c.start) \/ VHasNaN(c.control1) \/ VHasNaN(c.control2) \/ VHasNaN(c.end)

\* C3: a run of N >= 2 identical points fits to the curve whose four control
\* points all equal that point, and the result holds no NaN.
C3_DegenerateFit ==
    (pc = "fit_returned" /\ Coincident(points)) =>
        /\ fit_out = BezierCurve(points[1], points[1], points[1], points[1])
        /\ ~CurveHasNaN(fit_out)

\* C7: solve_for_b follows the fallback chain (small determinant: the
\* pseudo-inverse, else the original matrix; otherwise the inverse, else the
\* pseudo-inverse, else the original matrix), the call always returns, and
\* the fit of a run of at least two points is four control points.
C7_FallbackChain ==
    /\ pc = "fit_call" => ~best_fit(points, lib).panic
    /\ pc = "fit_returned" =>
        /\ \/ fit_calls = <<"det:small", "pseudo_inverse:Ok">>
                   /\ fit_how = "pseudo_inverse"
           \/ fit_calls = <<"det:small", "pseudo_inverse:Err">>
                   /\ fit_how = "original"
           \/ fit_calls = <<"det:not_small", "try_inverse:Some">>
                   /\ fit_how = "inverse"
           \/ fit_calls = <<"det:not_small", "try_inverse:None", "pseudo_inverse:Ok">>
                   /\ fit_how = "pseudo_inverse"
           \/ fit_calls = <<"det:not_small", "try_inverse:None", "pseudo_inverse:Err">>
                   /\ fit_how = "original"
        /\ Len(points) >= 2 => DOMAIN best_fit(points, lib).p_arr = 1..4

C7_Witness ==
    /\ pc = "fit_returned" /\ Len(points) >= 2
    /\ fit_calls = <<"det:not_small", "try_inverse:None", "pseudo_inverse:Err">>
    /\ fit_how = "original"

----------------------------------------------------------------------------
(* SpecSpline: one call of create_bezier_spline, step by step: the scan,   *)
(* the parallel fitting tasks (one per run, in any order), and the two     *)
(* passes of smooth_spline (the apply tasks in any order).                 *)

InitSpline ==
    /\ points \in SeqsUpTo(Samples, 1, MaxLen)
    /\ size \in Sizes
    /\ lib = NominalLib
    /\ pc = "scan"
    /\ i = 1 /\ last_vec_i = 0 /\ last_vec2 = points[1]
    /\ spline_parts = <<>> /\ run_ranges = <<>> /\ fit_done = {}
    /\ SmoothIdle /\ FitIdle /\ AppIdle

ScanState ==
    [last_vec_i |-> last_vec_i, last_vec2 |-> last_vec2,
     spline_parts |-> spline_parts, run_ranges |-> run_ranges]

\* one iteration of `for i in 1..points.len()`
ScanStep ==
    /\ pc = "scan" /\ i < Len(points)
    /\ LET st == ScanIteration(points, size, ScanState, i) IN
        /\ last_vec_i' = st.last_vec_i
        /\ last_vec2' = st.last_vec2
        /\ spline_parts' = st.spline_parts
        /\ run_ranges' = st.run_ranges
    /\ i' = i + 1
    /\ UNCHANGED <<points, size, lib, pc, fit_done, smoothVars, fitVars, appVars>>

\* the loop is over: push the last run and start one fitting task per run
ScanEnd ==
    /\ pc = "scan" /\ i >= Len(points)
    /\ LET st == PushLast(points, ScanState) IN
        /\ spline_parts' = st.spline_parts
        /\ run_ranges' = st.run_ranges
        /\ spline' = [k \in 1..Len(st.spline_parts) |-> NoCurve]
    /\ fit_done' = {}
    /\ pc' = "fit"
    /\ UNCHANGED <<points, size, lib, i, last_vec_i, last_vec2, adjustments,
                   apply_done, orig, smooth_calls, fitVars, appVars>>

\* mutant of FitTask: the task of run k writes the slots in reverse order
FitTaskReversed(k) ==
    /\ pc = "fit" /\ k \notin fit_done
    /\ spline' = [spline EXCEPT ![Len(spline) + 1 - k] =
                      fit_bezier_curve(spline_parts[k], lib)]
    /\ fit_done' = fit_done \cup {k}
    /\ UNCHANGED <<points, size, lib, pc, i, last_vec_i, last_vec2, spline_parts,
                   run_ranges, adjustments, apply_done, orig, smooth_calls,
                   fitVars, appVars>>

\* the task of run k: fit it and write output slot k
FitTask(k) ==
    /\ pc = "fit" /\ k \notin fit_done
    /\ spline' = [spline EXCEPT ![k] = fit_bezier_curve(spline_parts[k], lib)]
    /\ fit_done' = fit_done \cup {k}
    /\ UNCHANGED <<points, size, lib, pc, i, last_vec_i, last_vec2, spline_parts,
                   run_ranges, adjustments, apply_done, orig, smooth_calls,
                   fitVars, appVars>>

\* collect() has every curve; more than one: call smooth_spline
CollectSmooth ==
    /\ pc = "fit" /\ fit_done = 1..Len(spline_parts)
    /\ Len(spline) > 1
    /\ pc' = "smooth"
    /\ UNCHANGED <<points, size, lib, splineVars, smoothVars, fitVars, appVars>>

\* collect() has every curve; a single one: return it
CollectReturn ==
    /\ pc = "fit" /\ fit_done = 1..Len(spline_parts)
    /\ ~(Len(spline) > 1)
    /\ pc' = "done"
    /\ UNCHANGED <<points, size, lib, splineVars, smoothVars, fitVars, appVars>>

\* smooth_spline, the guard: nothing to do for at most one curve
SmoothReturnEarly ==
    /\ pc = "smooth" /\ Len(spline) <= 1
    /\ orig' = spline
    /\ smooth_calls' = smooth_calls + 1
    /\ pc' = "done"
    /\ UNCHANGED <<points, size, lib, splineVars, spline, adjustments, apply_done,
                   fitVars, appVars>>

\* smooth_spline, first pass: all adjustments, from the curves as they are
SmoothFirstPass ==
    /\ pc = "smooth" /\ ~(Len(spline) <= 1)
    /\ orig' = spline
    /\ smooth_calls' = smooth_calls + 1
    /\ adjustments' = ComputeAdjustments(spline)
    /\ apply_done' = {}
    /\ pc' = "apply"
    /\ UNCHANGED <<points, size, lib, splineVars, spline, fitVars, appVars>>

\* mutant of SmoothApply: the skip(1) is missing, adjustment k - 1 lands on
\* curve k - 1
SmoothApplyNoSkip(k) ==
    /\ pc = "apply" /\ k \notin apply_done
    /\ spline' = [spline EXCEPT ![k - 1] = ApplyAdjustment(@, adjustments[k - 1])]
    /\ apply_done' = apply_done \cup {k}
    /\ UNCHANGED <<points, size, lib, pc, splineVars, adjustments, orig,
                   smooth_calls, fitVars, appVars>>

\* smooth_spline, second pass: the task of curve k (k >= 2, the skip(1))
SmoothApply(k) ==
    /\ pc = "apply" /\ k \notin apply_done
    /\ spline' = [spline EXCEPT ![k] = ApplyAdjustment(@, adjustments[k - 1])]
    /\ apply_done' = apply_done \cup {k}
    /\ UNCHANGED <<points, size, lib, pc, splineVars, adjustments, orig,
                   smooth_calls, fitVars, appVars>>

\* for_each has run every task: smooth_spline returns
SmoothJoin ==
    /\ pc = "apply" /\ apply_done = 2..Len(spline)
    /\ pc' = "done"
    /\ UNCHANGED <<points, size, lib, splineVars, smoothVars, fitVars, appVars>>

NextSpline ==
    \/ ScanStep
    \/ ScanEnd
    \/ \E k \in 1..Len(spline_parts) : FitTask(k)
    \/ CollectSmooth
    \/ CollectReturn
    \/ SmoothFirstPass
    \/ \E k \in 2..Len(spline) : SmoothApply(k)
    \/ SmoothJoin

SpecSpline == InitSpline /\ [][NextSpline]_vars

\* the scan of SpecSpline is over and every run has been pushed
ScanOver == pc \in {"fit", "smooth", "apply", "done"}

\* the runs joined, with the first point of every run after the first dropped
RECURSIVE JoinRuns(_)
JoinRuns(parts) ==
    IF Len(parts) = 0 THEN <<>>
    ELSE IF Len(parts) = 1 THEN parts[1]
    ELSE JoinRuns(SubSeq(parts, 1, Len(parts) - 1)) \o Tail(parts[Len(parts)])

\* C1: the runs are contiguous index ranges of the input: the first starts
\* at index 0, the last ends at the last index, each later run starts where
\* the previous one ended, and the runs joined with one duplicate dropped
\* at each boundary are the input.
C1_ContiguousRuns ==
    ScanOver =>
        LET n == Len(spline_parts) IN
        /\ n >= 1 /\ Len(run_ranges) = n
        /\ run_ranges[1][1] = 0
        /\ run_ranges[n][2] = Len(points) - 1
        /\ \A k \in 2..n : run_ranges[k][1] = run_ranges[k - 1][2]
        /\ \A k \in 1..n :
              /\ run_ranges[k][1] <= run_ranges[k][2]
              /\ spline_parts[k] =
                    SubSeq(points, run_ranges[k][1] + 1, run_ranges[k][2] + 1)
        /\ JoinRuns(spline_parts) = points

C1_Witness ==
    /\ pc = "done" /\ Len(spline_parts) >= 2
    /\ \E k \in 1..Len(spline_parts) : Len(spline_parts[k]) >= 3

\* C2: for an input of at least two points, every run given to
\* fit_bezier_curve has at least two points.
C2_RunsHaveTwoPoints ==
    (ScanOver /\ Len(points) >= 2 /\ size > 0) =>
        \A k \in 1..Len(spline_parts) : Len(spline_parts[k]) >= 2

\* the runs closed inside the loop: all pushed runs while the scan runs, all
\* but the final push afterwards
ClosedRuns ==
    IF pc = "scan" THEN Len(run_ranges)
    ELSE IF Len(run_ranges) = 0 THEN 0 ELSE Len(run_ranges) - 1

\* the indices at which a run was closed
SplitIndices == {run_ranges[k][2] : k \in 1..ClosedRuns}

\* the anchor in force when index j is examined: the last split before j,
\* index 0 if there is none
AnchorIndex(j) == MaxOf({0} \cup {s \in SplitIndices : s < j})

\* the indices the loop has examined so far
Examined == 1..(IF pc = "scan" THEN i - 1 ELSE Len(points) - 1)

\* C11: a run is closed at index i exactly when points[i] is farther than
\* size from the anchor (the first point of the current run, not
\* points[i - 1]); the closed run is points[anchor_index..=i] and the anchor
\* becomes points[i]; so in every run all points before the last are within
\* size of the first.  (0,0),(0,50),(0,160),(0,170) with size 100 gives the
\* runs [(0,0),(0,50),(0,160)] and [(0,160),(0,170)].
C11_SplitRule ==
    /\ pc \in {"scan", "fit", "smooth", "apply", "done"} =>
          /\ \A j \in Examined :
                (j \in SplitIndices) <=>
                    (metric_distance(points[AnchorIndex(j) + 1], points[j + 1]) > size)
          /\ \A k \in 1..ClosedRuns :
                /\ run_ranges[k][1] = AnchorIndex(run_ranges[k][2])
                /\ spline_parts[k] =
                      SubSeq(points, run_ranges[k][1] + 1, run_ranges[k][2] + 1)
          /\ pc = "scan" =>
                /\ last_vec_i = AnchorIndex(i)
                /\ last_vec2 = points[last_vec_i + 1]
          /\ \A k \in 1..Len(spline_parts) :
                \A n \in 1..(Len(spline_parts[k]) - 1) :
                    metric_distance(spline_parts[k][1], spline_parts[k][n]) <= size
    /\ LET P(yy) == Vec2(F(0), F(yy)) IN
          Segment(<<P(0), P(50), P(160), P(170)>>, 100) =
              << <<P(0), P(50), P(160)>>, <<P(160), P(170)>> >>

\* a run closed at a point that is near its predecessor and far from the anchor
C11_Witness ==
    /\ ScanOver
    /\ \E j \in SplitIndices :
          /\ j >= 2
          /\ AnchorIndex(j) < j - 1
          /\ metric_distance(points[j], points[j + 1]) <= size
          /\ metric_distance(points[AnchorIndex(j) + 1], points[j + 1]) > size

\* C9: whatever the order of the fitting tasks and of the apply tasks, the
\* result is one curve per run, curve k the fit of run k; a task writes its
\* own slot only; smooth_spline runs exactly when more than one curve
\* resulted; the returned spline is the one the sequential composition gives.
C9_OrderIndependent ==
    /\ pc = "fit" =>
          /\ Len(spline) = Len(spline_parts)
          /\ \A k \in 1..Len(spline) :
                spline[k] = IF k \in fit_done
                            THEN fit_bezier_curve(spline_parts[k], lib)
                            ELSE NoCurve
    /\ pc = "smooth" =>
          \A k \in 1..Len(spline) :
              spline[k] = fit_bezier_curve(spline_parts[k], lib)
    /\ pc = "apply" =>
          \A k \in 1..Len(spline) :
              spline[k] = IF k \in apply_done
                          THEN ApplyAdjustment(orig[k], Adjustment(orig[k - 1], orig[k]))
                          ELSE orig[k]
    /\ pc \in {"scan", "fit", "smooth"} => smooth_calls = 0
    /\ pc = "done" =>
          /\ Len(spline) = Len(spline_parts)
          /\ smooth_calls = (IF Len(spline) > 1 THEN 1 ELSE 0)
          /\ spline = create_bezier_spline(points, size, lib)

C9_Witness ==
    /\ pc = "apply" /\ Len(spline) >= 3
    /\ apply_done = {3}
    /\ spline[3] # orig[3]

----------------------------------------------------------------------------
(* SpecSmooth: one call of smooth_spline on an arbitrary list of finite    *)
(* curves.                                                                 *)

PV(v) == Vec2(F(v), F(v))

\* the curves smooth_spline is tried on; they include the pair
\* end (10,10), control2 (8,8) / start (11,11), control1 (12,12)
SmoothCurves ==
    {BezierCurve(PV(s), PV(c1), PV(c2), PV(e)) :
        s \in {10, 11}, c1 \in {12, 13}, c2 \in {8, 10}, e \in {10, 11}}

InitSmooth ==
    /\ spline \in SeqsUpTo(SmoothCurves, 0, MaxCurves)
    /\ adjustments = <<>> /\ apply_done = {} /\ orig = <<>> /\ smooth_calls = 0
    /\ pc = "smooth"
    /\ points = <<>> /\ lib = NominalLib
    /\ SplineIdle /\ FitIdle /\ AppIdle

NextSmooth ==
    \/ SmoothReturnEarly
    \/ SmoothFirstPass
    \/ \E k \in 2..Len(spline) : SmoothApply(k)
    \/ SmoothJoin

SpecSmooth == InitSmooth /\ [][NextSmooth]_vars

\* 2 * p - q and p + (q - r) on finite vectors
TwiceMinus(p, q) == Vec2(F(2 * p.x.v - q.x.v), F(2 * p.y.v - q.y.v))
PlusDiff(p, q, r) == Vec2(F(p.x.v + (q.x.v - r.x.v)), F(p.y.v + (q.y.v - r.y.v)))

\* C4: for a list of more than one curve, every curve k >= 2 ends with
\* start = 2 * orig.start[k] - orig.end[k-1] and
\* control1 = orig.start[k] + (orig.end[k-1] - orig.control2[k-1]),
\* orig being the list as it was on entry (also while other curves are still
\* to be written, in any order).
C4_NoCascade ==
    (pc \in {"apply", "done"} /\ Len(orig) > 1) =>
        \A k \in 2..Len(orig) :
            (pc = "done" \/ k \in apply_done) =>
                /\ spline[k].start = TwiceMinus(orig[k].start, orig[k - 1].end)
                /\ spline[k].control1 =
                      PlusDiff(orig[k].start, orig[k - 1].end, orig[k - 1].control2)

\* the example of the claim, as the third curve of a list whose second curve
\* was itself adjusted
C4_Witness ==
    /\ pc = "done" /\ Len(orig) = 3
    /\ spline[2] # orig[2]
    /\ orig[2].end = PV(10) /\ orig[2].control2 = PV(8)
    /\ orig[3].start = PV(11) /\ orig[3].control1 = PV(12)
    /\ spline[3].start = PV(12) /\ spline[3].control1 = PV(13)

\* C5: smooth_spline keeps the number and order of the curves, leaves
\* curve[0] as it was, and leaves control2 and end of every curve as they were.
C5_Frame ==
    pc \in {"apply", "done"} =>
        /\ Len(spline) = Len(orig)
        /\ Len(orig) >= 1 => spline[1] = orig[1]
        /\ \A k \in 1..Len(orig) :
              /\ spline[k].control2 = orig[k].control2
              /\ spline[k].end = orig[k].end

C5_Witness ==
    /\ pc = "done" /\ Len(orig) = 3
    /\ spline[2].start # orig[2].start
    /\ spline[3].control1 # orig[3].control1

\* the pair (k - 1, k) of the list sp is already continuous
FixedPair(sp, k) ==
    /\ sp[k].start = sp[k - 1].end
    /\ sp[k].control1 = PlusDiff(sp[k].start, sp[k - 1].end, sp[k - 1].control2)

\* C6 as stated: smooth_spline leaves both curves of every pair that is
\* already continuous unchanged.
C6_FixedPairBothUnchanged ==
    pc = "done" =>
        \A k \in 2..Len(orig) :
            FixedPair(orig, k) =>
                spline[k] = orig[k] /\ spline[k - 1] = orig[k - 1]

\* C6 (amended): smooth_spline leaves the current curve of every pair that
\* is already continuous unchanged, and the previous curve too when that
\* one is curve[0] or is the current curve of a pair that is already
\* continuous.
C6_FixedPair ==
    pc = "done" =>
        \A k \in 2..Len(orig) :
            FixedPair(orig, k) =>
                /\ spline[k] = orig[k]
                /\ (k = 2 \/ FixedPair(orig, k - 1)) => spline[k - 1] = orig[k - 1]

C6_Witness ==
    /\ pc = "done" /\ Len(orig) = 3
    /\ FixedPair(orig, 2) /\ FixedPair(orig, 3)
    /\ orig[2].end # orig[2].control2
    /\ spline = orig

----------------------------------------------------------------------------
(* SpecApp: ThinkApp::window_event on mouse presses, mouse releases,       *)
(* cursor moves and the 'r' key, with the window active.  An entity is     *)
(* [bez_spline, has_points, points]: its Spline component and, while       *)
(* has_points, its Points component.  A tick of the clock is 0.05 s.       *)

\* the threshold given to create_bezier_spline
SplineSize == 100

\* delta_time > 0.05, in ticks
MinDelta == 1

\* cursor positions
Positions == {Vec2(F(0), F(0)), Vec2(F(90), F(0)), Vec2(F(0), F(120))}

\* the entities a query for Points matches
WithPoints(w) == {k \in 1..Len(w) : w[k].has_points}

\* Query::single_mut: exactly one match, or a panic
SingleOk(w) == Cardinality(WithPoints(w)) = 1
Single(w) == CHOOSE k \in WithPoints(w) : TRUE

\* mutant of sys_update_spline: the spline of the first entity is replaced
sys_update_spline_first(w) ==
    LET k == Single(w) IN
    [w EXCEPT ![1].bez_spline = create_bezier_spline(w[k].points, SplineSize, lib)]

\* sys_update_spline run once on the world w
sys_update_spline(w) ==
    LET k == Single(w) IN
    [w EXCEPT ![k].bez_spline = create_bezier_spline(w[k].points, SplineSize, lib)]

InitApp ==
    /\ is_drawing = FALSE /\ start_draw_time = -1 /\ now = 0
    /\ world = <<>> /\ panicked = FALSE /\ last_event = "none"
    /\ last_call = -1
    /\ points = <<>> /\ lib = NominalLib /\ pc = "events"
    /\ SplineIdle /\ SmoothIdle /\ FitIdle

coreVars == <<points, lib, pc, splineVars, smoothVars, fitVars>>

\* MouseInput, Pressed: spawn an entity with an empty Spline and empty Points
MousePressed ==
    /\ ~panicked /\ Len(world) < MaxStrokes
    /\ is_drawing' = TRUE
    /\ world' = Append(world, [bez_spline |-> <<>>, has_points |-> TRUE,
                               points |-> <<>>])
    /\ last_event' = "press"
    /\ UNCHANGED <<start_draw_time, now, panicked, last_call, coreVars>>

\* MouseInput, Released: remove Points from the one entity that has it
MouseReleased ==
    /\ ~panicked
    /\ is_drawing' = FALSE
    /\ IF SingleOk(world)
       THEN /\ world' = [world EXCEPT ![Single(world)].has_points = FALSE,
                                      ![Single(world)].points = <<>>]
            /\ UNCHANGED panicked
       ELSE /\ panicked' = TRUE
            /\ UNCHANGED world
    /\ last_event' = "release"
    /\ UNCHANGED <<start_draw_time, now, last_call, coreVars>>

\* CursorMoved to position, the clock reading t
CursorMoved(position, t) ==
    /\ ~panicked
    /\ last_event' = "move"
    /\ IF ~is_drawing
       THEN UNCHANGED <<start_draw_time, now, world, panicked, last_call>>
       ELSE /\ now' = t
            /\ start_draw_time' = IF start_draw_time = -1 THEN t ELSE start_draw_time
            /\ IF ~(t - start_draw_time' > MinDelta)
               THEN UNCHANGED <<world, panicked, last_call>>
               ELSE IF ~SingleOk(world)
               THEN panicked' = TRUE /\ UNCHANGED <<world, last_call>>
               ELSE LET k == Single(world)
                        pushed == [world EXCEPT ![k].points = Append(@, position)]
                    IN /\ world' = sys_update_spline(pushed)
                       /\ last_call' = Len(pushed[k].points)
                       /\ UNCHANGED panicked
    /\ UNCHANGED <<is_drawing, coreVars>>

\* KeyboardInput 'r' / 'R': a fresh world
KeyR ==
    /\ ~panicked
    /\ world' = <<>>
    /\ last_event' = "reset"
    /\ UNCHANGED <<is_drawing, start_draw_time, now, panicked, last_call, coreVars>>

\* the strokes of the model stay within MaxPts samples
MoveAllowed ==
    \A k \in WithPoints(world) : Len(world[k].points) < MaxPts

NextApp ==
    \/ MousePressed
    \/ MouseReleased
    \/ \E position \in Positions : \E t \in now..MaxTime :
          MoveAllowed /\ CursorMoved(position, t)
    \/ KeyR

SpecApp == InitApp /\ [][NextApp]_vars

\* C8: create_bezier_spline is never called on fewer than two points.
C8_NeverFewerThanTwoPoints == last_call = -1 \/ last_call >= 2

\* the entities whose stroke has ended
Released(w) == {k \in 1..Len(w) : ~w[k].has_points}

\* C10: the spline of an active stroke is create_bezier_spline of all its
\* samples with threshold 100 (empty before the first sample); the spline of
\* a stroke whose button was released is not changed by a press, a move or a
\* release.
C10_Lifecycle ==
    /\ [](\A k \in WithPoints(world) :
            world[k].bez_spline =
                IF world[k].points = <<>> THEN <<>>
                ELSE create_bezier_spline(world[k].points, 100, lib))
    /\ [][\A k \in Released(world) :
            last_event' # "reset" =>
                /\ k <= Len(world')
                /\ world'[k].bez_spline = world[k].bez_spline]_vars

C10_Witness ==
    /\ Len(world) = 2
    /\ ~world[1].has_points /\ Len(world[1].bez_spline) >= 2
    /\ world[2].has_points /\ Len(world[2].points) >= 2
    /\ last_event = "move"

\* C12: after any sequence of presses, releases, moves and resets, exactly
\* one entity carries Points while is_drawing is true and none while it is
\* false, so no single_mut query of the handlers ever fails to match
\* exactly one entity.
C12_OnePointsEntity ==
    /\ ~panicked
    /\ is_drawing => Cardinality(WithPoints(world)) = 1
    /\ ~is_drawing => WithPoints(world) = {}

====
